---- MODULE Spec2Model ----
(***************************************************************************)
(* Model of to_dict/serializer.py: the schema store, the visibility test,  *)
(* the schema merger and the recursive serializer of class Serializer.     *)
(*                                                                         *)
(* A Python str is a sequence of one-character strings, so that split,     *)
(* join, startswith and the '%s%s' concatenation are computed as the code   *)
(* computes them:  '-f.g'  is  <<"-", "f", ".", "g">>.                     *)
(***************************************************************************)
EXTENDS Integers, Sequences, FiniteSets, TLC

VARIABLES
    kwargs,     \* self.kwargs of the engine instance under observation
    seed,       \* the interpreter's hash seed: fixes the iteration order of a set of str
    _keys,      \* self._keys of the instance: head -> list of tails
    op,         \* the method of the instance that ran last ("new" after __init__)
    arg,        \* its arguments
    ret,        \* value returned by __call__
    sub,        \* list returned by _get_sub_schema
    merged,     \* set returned by merge_schemas
    exc,        \* exception that left the method, "none" when it returned
    loaded,     \* every path handed to _set_schema by the caller so far, in order
    gets        \* number of _get_sub_schema calls made by the caller so far

vars == <<kwargs, seed, _keys, op, arg, ret, sub, merged, exc, loaded, gets>>

-----------------------------------------------------------------------------
(* Bounds *)

\* longest list of paths given as a schema
MaxSchemaLen == 2
\* most paths a caller loads into one instance by direct _set_schema calls
MaxLoaded == 3
\* most direct _get_sub_schema calls on one instance
MaxGets == 2
\* longest list among the values serialized
MaxListLen == 2

-----------------------------------------------------------------------------
(* Class attributes and str helpers *)

_WILDCARD == <<"*">>
_DELIM == <<".">>
_NEGATION == <<"-">>

\* the order of characters, used only to order a set of str for iteration
Alphabet == <<"*", "-", ".", "_", "f", "g", "h", "p">>

startswith(s, prefix) ==
    /\ Len(s) >= Len(prefix)
    /\ SubSeq(s, 1, Len(prefix)) = prefix

\* position of the first occurrence of the one-character sep in s, 0 when absent
find(s, sep) ==
    IF \E i \in 1..Len(s) : s[i] = sep[1]
    THEN CHOOSE i \in 1..Len(s) : s[i] = sep[1] /\ \A j \in 1..(i - 1) : s[j] # sep[1]
    ELSE 0

RECURSIVE split(_, _)
split(s, sep) ==
    LET i == find(s, sep)
    IN  IF i = 0 THEN <<s>>
        ELSE <<SubSeq(s, 1, i - 1)>> \o split(SubSeq(s, i + 1, Len(s)), sep)

RECURSIVE join(_, _)
join(sep, parts) ==
    IF parts = <<>> THEN <<>>
    ELSE IF Len(parts) = 1 THEN parts[1]
    ELSE parts[1] \o sep \o join(sep, Tail(parts))

_negate(key) == _NEGATION \o key

_is_negation(key) == startswith(key, _NEGATION)

_admit(key) ==
    IF _is_negation(key) THEN SubSeq(key, Len(_NEGATION) + 1, Len(key)) ELSE key

-----------------------------------------------------------------------------
(* Iteration order of a set of str *)

Rank(c) == CHOOSE i \in 1..Len(Alphabet) : Alphabet[i] = c

RECURSIVE StrLess(_, _)
StrLess(a, b) ==
    IF a = <<>> THEN b # <<>>
    ELSE IF b = <<>> THEN FALSE
    ELSE IF a[1] = b[1] THEN StrLess(Tail(a), Tail(b))
    ELSE Rank(a[1]) < Rank(b[1])

\* seed 0 iterates in ascending order, seed 1 in descending order, so that
\* every two members of a set are met in both relative orders
Before(a, b) == IF seed = 0 THEN StrLess(a, b) ELSE StrLess(b, a)

RECURSIVE SetIter(_)
SetIter(S) ==
    IF S = {} THEN <<>>
    ELSE LET first == CHOOSE x \in S : \A y \in S \ {x} : Before(x, y)
         IN  <<first>> \o SetIter(S \ {first})

-----------------------------------------------------------------------------
(* Schema store: Serializer._keys *)

EmptyKeys == [h \in {} |-> <<>>]

get(keys, key) == IF key \in DOMAIN keys THEN keys[key] ELSE <<>>

\* one turn of the loop of _set_schema
SetSchemaStep(keys, k) ==
    LET parts == split(k, _DELIM)
        head == Head(parts)
        tail == Tail(parts)
    IN  IF head \in DOMAIN keys
        THEN IF tail # <<>> THEN [keys EXCEPT ![head] = Append(@, tail)] ELSE keys
        ELSE keys @@ (head :> (IF tail # <<>> THEN <<tail>> ELSE <<>>))

RECURSIVE _set_schema(_, _)
_set_schema(keys, ks) ==
    IF ks = <<>> THEN keys
    ELSE _set_schema(SetSchemaStep(keys, Head(ks)), Tail(ks))

\* the property is_greedy
is_greedy(kw) == kw.is_greedy

_is_valid_wildcard_first(keys, kw, key) ==
    IF _WILDCARD \in DOMAIN keys THEN TRUE
    ELSE IF _negate(key) \in DOMAIN keys /\ keys[_negate(key)] = <<>> THEN FALSE
    ELSE key \in DOMAIN keys \/ (is_greedy(kw) /\ ~startswith(key, <<"_">>))

_is_valid(keys, kw, key) ==
    IF _negate(key) \in DOMAIN keys /\ keys[_negate(key)] = <<>> THEN FALSE
    ELSE IF _WILDCARD \in DOMAIN keys THEN TRUE
    ELSE key \in DOMAIN keys \/ (is_greedy(kw) /\ ~startswith(key, <<"_">>))

\* index of the first empty tail of a list of tails, 0 when there is none
FirstEmpty(tails) ==
    IF \E i \in 1..Len(tails) : tails[i] = <<>>
    THEN CHOOSE i \in 1..Len(tails) :
             tails[i] = <<>> /\ \A j \in 1..(i - 1) : tails[j] # <<>>
    ELSE 0

\* k[0] = self._negate(k[0])
NegateFirst(k) == <<_negate(k[1])>> \o Tail(k)

JoinAll(ks) == [i \in 1..Len(ks) |-> join(_DELIM, ks[i])]

\* _get_sub_schema with the negation mark left on the key (the tails of a
\* negated key are handed down without it)
_get_sub_schema_unshifted(keys, key) ==
    LET plain == SelectSeq(get(keys, key), LAMBDA k : k # <<>>)
        neg == get(keys, _negate(key))
    IN  [ret |-> JoinAll(plain \o neg), exc |-> "none", keys |-> keys]

\* Returns the list, the exception raised in its place, and self._keys as the
\* method leaves it: the tails under the negated key are the list objects of
\* the store, and line 123 rewrites their first element in place.
_get_sub_schema(keys, key) ==
    LET plain == SelectSeq(get(keys, key), LAMBDA k : k # <<>>)
        neg == get(keys, _negate(key))
        e == FirstEmpty(neg)
        last == IF e = 0 THEN Len(neg) ELSE e - 1
        rewritten == [i \in 1..Len(neg) |->
                        IF i <= last THEN NegateFirst(neg[i]) ELSE neg[i]]
        after == IF _negate(key) \in DOMAIN keys
                 THEN [keys EXCEPT ![_negate(key)] = rewritten]
                 ELSE keys
    IN  IF e # 0
        THEN [ret |-> <<>>, exc |-> "Exception", keys |-> after]
        ELSE [ret |-> JoinAll(plain \o rewritten), exc |-> "none", keys |-> after]

-----------------------------------------------------------------------------
(* Schema merger *)

\* one turn of the inner loop of merge_schemas
MergeStep(res, k) ==
    (IF _is_negation(k) THEN res \ {_admit(k)} ELSE res \ {_negate(k)}) \cup {k}

RECURSIVE MergeList(_, _)
MergeList(res, ks) ==
    IF ks = <<>> THEN res ELSE MergeList(MergeStep(res, Head(ks)), Tail(ks))

RECURSIVE MergeLists(_, _)
MergeLists(res, lists) ==
    IF lists = <<>> THEN res
    ELSE MergeLists(MergeList(res, Head(lists)), Tail(lists))

\* merge_schemas that takes the lowest-priority list as it stands and
\* resolves conflicts only against the lists that follow
merge_schemas_first_verbatim(lists) ==
    IF lists = <<>> THEN {}
    ELSE MergeLists({Head(lists)[i] : i \in 1..Len(Head(lists))}, Tail(lists))

merge_schemas(lists) == MergeLists({}, lists)

-----------------------------------------------------------------------------
(* Values: what __call__ is given and what it returns.  Every value is a   *)
(* record of one shape; t is the runtime type that the isinstance chain    *)
(* of __call__ tests.                                                      *)

Node(t, n, s, schema, keys, items) ==
    [t |-> t, n |-> n, s |-> s, schema |-> schema, keys |-> keys, items |-> items]

Num(n) == Node("int", n, <<>>, <<>>, <<>>, <<>>)
Str(s) == Node("str", 0, s, <<>>, <<>>, <<>>)
\* an object of a class the serializer does not know
Other == Node("object", 0, <<>>, <<>>, <<>>, <<>>)
\* a datetime.datetime / datetime.date, n its instant
Datetime(n) == Node("datetime", n, <<>>, <<>>, <<>>, <<>>)
Date(n) == Node("date", n, <<>>, <<>>, <<>>, <<>>)
\* a callable returning v
Callable(v) == Node("callable", 0, <<>>, <<>>, <<>>, <<v>>)
List(items) == Node("list", 0, <<>>, <<>>, <<>>, items)
\* a dict: keys[i] maps to items[i]
Dict(keys, items) == Node("dict", 0, <<>>, <<>>, keys, items)
\* a SerializerMixin object: __schema__, get_model_keys(), getattr per key
Model(schema, keys, items) == Node("model", 0, <<>>, schema, keys, items)
\* stands where a raised exception left no return value
NoResult == Node("noresult", 0, <<>>, <<>>, <<>>, <<>>)

simple_types == {"int", "str", "float", "bytes", "bool", "NoneType"}

\* collections.Iterable: list, tuple, set and also dict (str and bytes are
\* Iterable too, and never get this far)
IsIterable(value) == value.t \in {"list", "dict"}

\* what `for v in value` yields: the members of a list, the keys of a dict
Iterate(value) ==
    IF value.t = "dict" THEN [i \in 1..Len(value.keys) |-> Str(value.keys[i])]
    ELSE value.items

Return(v, keys) == [ret |-> v, exc |-> "none", keys |-> keys]
Raise(e, keys) == [ret |-> NoResult, exc |-> e, keys |-> keys]

-----------------------------------------------------------------------------
(* Recursive serializer.  Each operator takes self._keys and self.kwargs   *)
(* and returns the value, the exception and self._keys as it leaves it.    *)

\* strftime / format_datetime of lib.timezones: the text is not modelled, only
\* that a str comes back
serialize_datetime(kw, value) == Str(<<"d", "t">>)
serialize_date(kw, value) == Str(<<"d">>)

RECURSIVE Call(_, _, _, _)
RECURSIVE IterLoop(_, _, _, _, _)
RECURSIVE KeyedLoop(_, _, _, _, _, _)
RECURSIVE _fork(_, _, _, _)

\* the loop of serialize_iter from element i on, res the list built so far
IterLoop(keys, kw, elems, i, res) ==
    IF i > Len(elems) THEN Return(List(res), keys)
    ELSE LET r == Call(keys, kw, elems[i], <<>>)
         IN  IF r.exc = "IsNotSerializable"
             THEN IterLoop(r.keys, kw, elems, i + 1, res)
             ELSE IF r.exc # "none" THEN Raise(r.exc, r.keys)
             ELSE IterLoop(r.keys, kw, elems, i + 1, Append(res, r.ret))

\* serialize_iter that lets the exception of an element through
serialize_iter_no_catch(keys, kw, value) ==
    LET elems == Iterate(value)
        RECURSIVE Loop(_, _, _)
        Loop(ks, i, res) ==
            IF i > Len(elems) THEN Return(List(res), ks)
            ELSE LET r == Call(ks, kw, elems[i], <<>>)
                 IN  IF r.exc # "none" THEN Raise(r.exc, r.keys)
                     ELSE Loop(r.keys, i + 1, Append(res, r.ret))
    IN  Loop(keys, 1, <<>>)

serialize_iter(keys, kw, value) == IterLoop(keys, kw, Iterate(value), 1, <<>>)

\* the loop shared by serialize_dict and serialize_model from key i on;
\* rk and rv are the keys and values of res in insertion order
KeyedLoop(keys, kw, value, i, rk, rv) ==
    IF i > Len(value.keys) THEN Return(Dict(rk, rv), keys)
    ELSE LET k == value.keys[i]
         IN  IF _is_valid(keys, kw, k)
             THEN LET r == _fork(keys, kw, k, value.items[i])
                  IN  IF r.exc # "none" THEN Raise(r.exc, r.keys)
                      ELSE KeyedLoop(r.keys, kw, value, i + 1,
                                     Append(rk, k), Append(rv, r.ret))
             ELSE KeyedLoop(keys, kw, value, i + 1, rk, rv)

serialize_dict(keys, kw, value) == KeyedLoop(keys, kw, value, 1, <<>>, <<>>)

serialize_model(keys, kw, value) == KeyedLoop(keys, kw, value, 1, <<>>, <<>>)

\* the forked Serializer starts from an empty store, which is dropped when it
\* returns; _get_sub_schema runs on self before the fork is called
_fork(keys, kw, key, value) ==
    IF value.t \in simple_types THEN Return(value, keys)
    ELSE LET s == _get_sub_schema(keys, key)
         IN  IF s.exc # "none" THEN Raise(s.exc, s.keys)
             ELSE LET r == Call(EmptyKeys, kw, value, s.ret)
                  IN  [ret |-> r.ret, exc |-> r.exc, keys |-> s.keys]

\* Serializer.__call__
Call(keys, kw, value0, schema) ==
    LET value == IF value0.t = "callable" THEN value0.items[1] ELSE value0
    IN  IF value.t \in simple_types THEN Return(value, keys)
        ELSE IF value.t = "datetime" THEN Return(serialize_datetime(kw, value), keys)
        ELSE IF value.t = "date" THEN Return(serialize_date(kw, value), keys)
        ELSE IF IsIterable(value) THEN serialize_iter(keys, kw, value)
        ELSE IF value.t = "model"
        THEN serialize_model(
                 _set_schema(keys, SetIter(merge_schemas(<<value.schema, schema>>))),
                 kw, value)
        ELSE IF value.t = "dict"
        THEN serialize_dict(_set_schema(keys, schema), kw, value)
        ELSE Raise("IsNotSerializable", keys)

-----------------------------------------------------------------------------
(* The inputs: field names, paths, schemas and values *)

F == <<"f">>
G == <<"g">>
H == <<"h">>
P == <<"_", "p">>

FieldNames == {F, G, H, P}

Paths ==
    { F, _negate(F), join(_DELIM, <<F, G>>), join(_DELIM, <<F, H>>),
      join(_DELIM, <<_negate(F), G>>), _WILDCARD }

SeqsUpTo(S, n) == UNION {[1..m -> S] : m \in 0..n}

Schemas == SeqsUpTo(Paths, MaxSchemaLen)

\* the objects found inside the top-level one: fields g and h, a default
\* schema of their own, h possibly an object that cannot be serialized
InnerSchemas == {<<>>, <<_negate(G)>>, <<G>>, <<H>>}
InnerModels ==
    {Model(d, <<G, H>>, <<Num(1), Num(2)>>) : d \in InnerSchemas}
        \cup {Model(<<>>, <<G, H>>, <<Num(1), Other>>)}

Elements == InnerModels \cup {Other}
Lists == {List(items) : items \in SeqsUpTo(Elements, MaxListLen)}

\* the lists held by field f of the top-level object
FieldElements ==
    {Model(<<>>, <<G, H>>, <<Num(1), Num(2)>>), Model(<<>>, <<G, H>>, <<Num(1), Other>>)}
FieldLists == {List(items) : items \in SeqsUpTo(FieldElements, MaxListLen)}

\* {child: {value: 1, extra: 2}, other: 3} with f, g, h for child, value, other
Dicts == { Dict(<<F, H>>, <<Dict(<<G, H>>, <<Num(1), Num(2)>>), Num(3)>>),
           Dict(<<G, P>>, <<Num(1), Num(2)>>) }

\* what field f of the top-level object holds
FieldValues ==
    InnerModels \cup FieldLists
        \cup {Num(1), Other, Callable(Num(1)), Datetime(1), Date(1)}

OuterSchemas == {<<>>, <<_negate(F)>>, <<join(_DELIM, <<F, G>>)>>}
OuterModels ==
    {Model(d, <<F, G, P>>, <<v, Num(3), Num(4)>>) : d \in OuterSchemas, v \in FieldValues}

\* (value, schema) of a top-level call: objects with every schema, the other
\* values with the default schema=() and with one non-empty schema
Calls ==
    (OuterModels \X Schemas)
        \cup ((Lists \cup Dicts \cup {Num(1), Other, Datetime(1)})
                 \X {<<>>, <<join(_DELIM, <<F, G>>)>>})

\* argument lists of a direct merge_schemas call
MergeArgs ==
    {<<l>> : l \in Schemas} \cup {<<l, l>> : l \in Schemas}
        \cup {<<l, m>> : l \in Schemas, m \in SeqsUpTo(Paths, 1)}

-----------------------------------------------------------------------------
(* The engine instance and the calls made on it *)

NoArg == [value |-> NoResult, schema |-> <<>>, key |-> <<>>, lists |-> <<>>]

\* Serializer(**kwargs): to_dict passes is_greedy, the store starts empty
Init ==
    /\ kwargs \in {[is_greedy |-> b] : b \in BOOLEAN}
    /\ seed \in {0, 1}
    /\ _keys = EmptyKeys
    /\ op = "new"
    /\ arg = NoArg
    /\ ret = NoResult
    /\ sub = <<>>
    /\ merged = {}
    /\ exc = "none"
    /\ loaded = <<>>
    /\ gets = 0

\* s(value, schema=schema) on a new instance, as to_dict and _fork do
DoCall(value, schema) ==
    /\ op = "new"
    /\ LET r == Call(_keys, kwargs, value, schema)
       IN  /\ _keys' = r.keys
           /\ ret' = r.ret
           /\ exc' = r.exc
    /\ op' = "__call__"
    /\ arg' = [NoArg EXCEPT !.value = value, !.schema = schema]
    /\ sub' = <<>>
    /\ merged' = {}
    /\ UNCHANGED <<kwargs, seed, loaded, gets>>

InUse == op \in {"new", "_set_schema", "_get_sub_schema"}

\* s._set_schema(ks)
DoSetSchema(ks) ==
    /\ InUse
    /\ ks # <<>>
    /\ Len(loaded) + Len(ks) <= MaxLoaded
    /\ _keys' = _set_schema(_keys, ks)
    /\ loaded' = loaded \o ks
    /\ op' = "_set_schema"
    /\ arg' = [NoArg EXCEPT !.schema = ks]
    /\ ret' = NoResult
    /\ sub' = <<>>
    /\ merged' = {}
    /\ exc' = "none"
    /\ UNCHANGED <<kwargs, seed, gets>>

\* s._get_sub_schema(key)
DoGetSubSchema(key) ==
    /\ InUse
    /\ gets < MaxGets
    /\ LET r == _get_sub_schema(_keys, key)
       IN  /\ _keys' = r.keys
           /\ sub' = r.ret
           /\ exc' = r.exc
    /\ gets' = gets + 1
    /\ op' = "_get_sub_schema"
    /\ arg' = [NoArg EXCEPT !.key = key]
    /\ ret' = NoResult
    /\ merged' = {}
    /\ UNCHANGED <<kwargs, seed, loaded>>

\* s.merge_schemas(*lists)
DoMergeSchemas(lists) ==
    /\ op = "new"
    /\ merged' = merge_schemas(lists)
    /\ op' = "merge_schemas"
    /\ arg' = [NoArg EXCEPT !.lists = lists]
    /\ ret' = NoResult
    /\ sub' = <<>>
    /\ exc' = "none"
    /\ UNCHANGED <<kwargs, seed, _keys, loaded, gets>>

\* nothing is called on an instance that has served its call
OnNew(S) == IF op = "new" THEN S ELSE {}

Next ==
    \/ \E c \in OnNew(Calls) : DoCall(c[1], c[2])
    \/ \E ks \in Schemas : DoSetSchema(ks)
    \/ \E key \in {F, G} : DoGetSubSchema(key)
    \/ \E lists \in OnNew(MergeArgs) : DoMergeSchemas(lists)

Spec == Init /\ [][Next]_vars

-----------------------------------------------------------------------------
(* Vocabulary of the properties *)

Range(seq) == {seq[i] : i \in 1..Len(seq)}

\* the keys of a keyed value, and the value under a key it holds
KeySet(d) == Range(d.keys)
Lookup(d, k) == d.items[CHOOSE i \in 1..Len(d.keys) : d.keys[i] = k]

Called == op = "__call__"

\* serialization of a value on its own: a new instance of the same configuration
Alone(value, schema) == Call(EmptyKeys, kwargs, value, schema)

\* the store of a new instance once it has applied the schema of an object
\* merged with the call-site schema
Applied(value, schema) ==
    _set_schema(EmptyKeys, SetIter(merge_schemas(<<value.schema, schema>>)))

\* p is rooted at key and goes deeper: key, the delimiter, a non-empty tail
Under(p, key) == startswith(p, key \o _DELIM) /\ Len(p) > Len(key) + 1
\* p without its root and the delimiter
Below(p, key) == SubSeq(p, Len(key) + 2, Len(p))

\* the elements an iteration keeps: every element is serialized by the
\* iterating instance in the state the elements before it left it in, the
\* ones that raise IsNotSerializable are left out, the order is kept
RECURSIVE Kept(_, _)
Kept(elems, i) ==
    IF i > Len(elems) THEN <<>>
    ELSE LET before == IterLoop(EmptyKeys, kwargs, SubSeq(elems, 1, i - 1), 1, <<>>).keys
             r == Call(before, kwargs, elems[i], <<>>)
         IN  (IF r.exc = "IsNotSerializable" THEN <<>> ELSE <<r.ret>>)
                 \o Kept(elems, i + 1)

\* the elements as each would be serialized on its own under a schema
RECURSIVE EachAlone(_, _)
EachAlone(elems, schema) ==
    IF elems = <<>> THEN <<>>
    ELSE LET r == Alone(Head(elems), schema)
         IN  (IF r.exc = "IsNotSerializable" THEN <<>> ELSE <<r.ret>>)
                 \o EachAlone(Tail(elems), schema)

-----------------------------------------------------------------------------
(* C1 *)

\* C1: serializing a mapping returns a mapping whose keys are exactly the
\* keys of the input that are included under the given schema, each simple
\* value unchanged.
C1_MappingIsKeyed ==
    (Called /\ arg.value.t = "dict") =>
        /\ exc = "none"
        /\ ret.t = "dict"
        /\ KeySet(ret) =
              {k \in KeySet(arg.value) :
                  _is_valid(_set_schema(EmptyKeys, arg.schema), kwargs, k)}
        /\ \A k \in KeySet(ret) :
              Lookup(arg.value, k).t \in simple_types
                  => Lookup(ret, k) = Lookup(arg.value, k)

-----------------------------------------------------------------------------
(* C2 *)

\* C2: when an included field f of an object holds a sequence, every element
\* of the sequence is serialized under the sub-schema computed for f.
C2_SubSchemaReachesElements ==
    (/\ Called
     /\ exc = "none"
     /\ arg.value.t = "model"
     /\ F \in KeySet(ret)
     /\ Lookup(arg.value, F).t = "list")
        => Lookup(ret, F).items =
              EachAlone(Lookup(arg.value, F).items,
                        _get_sub_schema(Applied(arg.value, arg.schema), F).ret)

-----------------------------------------------------------------------------
(* C3 *)

-----------------------------------------------------------------------------
(* C4 *)

\* a plain path rooted at k: the bare k or k.sub...
HasPlain(schema, k) == \E p \in Range(schema) : p = k \/ Under(p, k)
\* a negated path rooted at k
HasNegated(schema, k) == HasPlain(schema, _negate(k))

\* C4: the call-site schema wins over the default schema of the object at
\* the key level: a plain path rooted at k at the call site brings k into
\* the output although the default schema holds -k, and -k at the call site
\* keeps k out although the default schema holds a plain path rooted at k.
\* (Call-site schemas that hold both polarities of k are left aside.)
C4_CallSiteWinsPerKey ==
    (Called /\ exc = "none" /\ arg.value.t = "model") =>
        \A k \in KeySet(arg.value) :
            /\ (/\ HasPlain(arg.schema, k)
                /\ ~HasNegated(arg.schema, k)
                /\ _negate(k) \in Range(arg.value.schema))
                   => k \in KeySet(ret)
            /\ (/\ _negate(k) \in Range(arg.schema)
                /\ ~HasPlain(arg.schema, k)
                /\ HasPlain(arg.value.schema, k))
                   => k \notin KeySet(ret)

-----------------------------------------------------------------------------
(* C5 *)

\* C5: merging a list with itself gives the set that merging the list alone
\* gives.
C5_MergeIdempotent ==
    (op = "merge_schemas" /\ Len(arg.lists) = 2 /\ arg.lists[1] = arg.lists[2])
        => merged = merge_schemas(<<arg.lists[1]>>)

\* the list merged with itself holds a path after its negated counterpart
C5_Witness ==
    /\ op = "merge_schemas"
    /\ arg.lists = <<<<_negate(F), F>>, <<_negate(F), F>>>>
    /\ merged = {F}

-----------------------------------------------------------------------------
(* C6 *)

Public(m) == {k \in KeySet(m) : ~startswith(k, <<"_">>)}
DefaultKeys(m) == IF is_greedy(kwargs) THEN Public(m) ELSE {}

\* C6: an object whose default schema is empty, serialized with an empty
\* call-site schema, gives exactly its non-private fields when greedy and no
\* field when not; this for the top-level object and for the objects of a
\* top-level sequence (none of which was left out).
C6_GreedyStrictDefault ==
    (Called /\ exc = "none") =>
        /\ (arg.value.t = "model" /\ arg.value.schema = <<>> /\ arg.schema = <<>>)
              => KeySet(ret) = DefaultKeys(arg.value)
        /\ (arg.value.t = "list" /\ Len(ret.items) = Len(arg.value.items))
              => \A i \in 1..Len(ret.items) :
                    (arg.value.items[i].t = "model" /\ arg.value.items[i].schema = <<>>)
                        => KeySet(ret.items[i]) = DefaultKeys(arg.value.items[i])

-----------------------------------------------------------------------------
(* C7 *)

\* the fields of an object whose serialization raises IsNotSerializable once
\* the object has applied its schema
Failing(value, schema) ==
    LET store == Applied(value, schema)
    IN  {i \in 1..Len(value.keys) :
            /\ _is_valid(store, kwargs, value.keys[i])
            /\ value.items[i].t \notin simple_types
            /\ Alone(value.items[i], _get_sub_schema(store, value.keys[i]).ret).exc
                   = "IsNotSerializable"}

\* C7: IsNotSerializable is caught at the iterable level only.  A sequence,
\* top-level or held by field f, returns the serializations of the elements
\* that did not raise it, in their order, whatever depth it was raised at;
\* an object with a field that raises it, and a top-level value of no known
\* type, raise it to the caller and return nothing.
C7_CaughtOnlyByIterables ==
    Called =>
        /\ arg.value.t = "list"
              => (exc = "none" /\ ret = List(Kept(arg.value.items, 1)))
        /\ arg.value.t = "object"
              => (exc = "IsNotSerializable" /\ ret = NoResult)
        /\ arg.value.t = "model"
              => /\ Failing(arg.value, arg.schema) # {}
                    => (exc = "IsNotSerializable" /\ ret = NoResult)
                 /\ Failing(arg.value, arg.schema) = {} => exc = "none"
                 /\ (/\ exc = "none"
                     /\ F \in KeySet(ret)
                     /\ Lookup(arg.value, F).t = "list")
                        => Lookup(ret, F) = List(Kept(Lookup(arg.value, F).items, 1))

\* field f of the object holds two elements; the first raised two levels
\* below the sequence and is left out, the second is there
C7_Witness ==
    /\ Called
    /\ exc = "none"
    /\ arg.value.t = "model"
    /\ F \in KeySet(ret)
    /\ Lookup(arg.value, F) =
          List(<<Model(<<>>, <<G, H>>, <<Num(1), Other>>),
                 Model(<<>>, <<G, H>>, <<Num(1), Num(2)>>)>>)
    /\ Lookup(ret, F) = List(<<Dict(<<G, H>>, <<Num(1), Num(2)>>)>>)

-----------------------------------------------------------------------------
(* C8 *)

\* C8: asking for the sub-schema of a key whose negated form is in the store
\* with an empty tail list raises the configuration error.
C8_ExcludedKeyRaises ==
    (/\ op = "_get_sub_schema"
     /\ _negate(arg.key) \in DOMAIN _keys
     /\ _keys[_negate(arg.key)] = <<>>)
        => exc = "Exception"

-----------------------------------------------------------------------------
(* C9 *)

RECURSIVE PlainTails(_, _)
PlainTails(paths, key) ==
    IF paths = <<>> THEN <<>>
    ELSE (IF Under(Head(paths), key) THEN <<Below(Head(paths), key)>> ELSE <<>>)
             \o PlainTails(Tail(paths), key)

RECURSIVE NegatedTails(_, _)
NegatedTails(paths, key) ==
    IF paths = <<>> THEN <<>>
    ELSE (IF Under(Head(paths), _negate(key))
          THEN <<_negate(Below(Head(paths), _negate(key)))>> ELSE <<>>)
             \o NegatedTails(Tail(paths), key)

\* what a list of paths hands down to field key: the tails of the paths
\* rooted at key, then those of the paths rooted at the negated key with the
\* negation mark moved onto them
HandedDown(paths, key) == PlainTails(paths, key) \o NegatedTails(paths, key)

\* every path is key.tail or -key.tail, and merging cancels none of them
OnlyBelow(value, schema, key) ==
    /\ schema # <<>>
    /\ \A p \in Range(schema) : Under(p, key) \/ Under(p, _negate(key))
    /\ merge_schemas(<<value.schema, schema>>) = Range(schema)

\* C9: under a schema made of paths a.t1 .. a.tn, field a of an object comes
\* out as its value serialized on its own under t1 .. tn (a path -a.t handing
\* down -t); and the first _get_sub_schema(a) on a store returns the tails of
\* the paths loaded into it, rejoined, the negated ones with the mark on them.
C9_SubSchemaRoundTrip ==
    /\ (Called /\ arg.value.t = "model" /\ OnlyBelow(arg.value, arg.schema, F))
          => LET alone == Alone(Lookup(arg.value, F), HandedDown(arg.schema, F))
             IN  IF _is_valid(Applied(arg.value, arg.schema), kwargs, F)
                 THEN /\ exc = alone.exc
                      /\ exc = "none" => Lookup(ret, F) = alone.ret
                 ELSE F \notin KeySet(ret)
    /\ (op = "_get_sub_schema" /\ gets = 1)
          => (exc = "none" /\ sub = HandedDown(loaded, arg.key))

\* strict mode, schema f.g and f.h, f an object with g and h: both come out
C9_Witness ==
    /\ Called
    /\ ~is_greedy(kwargs)
    /\ arg.schema = <<join(_DELIM, <<F, G>>), join(_DELIM, <<F, H>>)>>
    /\ arg.value = Model(<<>>, <<F, G, P>>,
                         <<Model(<<>>, <<G, H>>, <<Num(1), Num(2)>>), Num(3), Num(4)>>)
    /\ ret = Dict(<<F>>, <<Dict(<<G, H>>, <<Num(1), Num(2)>>)>>)

-----------------------------------------------------------------------------
(* C10 *)

\* C10: the store is not written after the schema was applied: a
\* _get_sub_schema call leaves it as it was, and so does the serialization
\* of the elements of a sequence by the instance that iterates over them.
C10_StoreWrittenOnce ==
    [][/\ op' = "_get_sub_schema" => _keys' = _keys
       /\ (op' = "__call__" /\ arg'.value.t = "list") => _keys' = _keys]_vars

====
